---- MODULE Spec2Model ----
(***************************************************************************)
(* Giveaway bot (src/main.py): the in-memory registry of giveaways, the    *)
(* chat-message and reaction handlers that fill the two tracking sets, the *)
(* sleeping timer task armed by gstart, the closure routine _end_giveaway  *)
(* shared by the timer and by the manual gend command, and greroll.        *)
(*                                                                         *)
(* Execution is cooperative (asyncio): a handler runs atomically from one  *)
(* await to the next, so every action below is the code between two        *)
(* suspension points of one coroutine.                                     *)
(*                                                                         *)
(* Texts are sequences of one-character strings.                           *)
(***************************************************************************)
EXTENDS Integers, Sequences, FiniteSets, TLC

\* ------------------------------------------------------------- bounds
NumUsers == 3
MaxMsgs == 1
MaxTime == 1
MaxLen == 3
MaxCloses == 1

\* ------------------------------------------------------------- constants
MaxWinners == 50
SecPerDay == 86400
SecPerHour == 3600
SecPerMin == 60

\* ------------------------------------------------------------- texts
Digits == {"0", "1", "2", "3", "4", "5", "6", "7", "8", "9"}
Whitespace == {" ", "\t", "\n"}
UpperLetters == <<"A", "B", "C", "D", "E", "F", "G", "H", "I", "J", "K", "L", "M",
                  "N", "O", "P", "Q", "R", "S", "T", "U", "V", "W", "X", "Y", "Z">>
LowerLetters == <<"a", "b", "c", "d", "e", "f", "g", "h", "i", "j", "k", "l", "m",
                  "n", "o", "p", "q", "r", "s", "t", "u", "v", "w", "x", "y", "z">>

DigitVal(c) ==
    CASE c = "0" -> 0 [] c = "1" -> 1 [] c = "2" -> 2 [] c = "3" -> 3
      [] c = "4" -> 4 [] c = "5" -> 5 [] c = "6" -> 6 [] c = "7" -> 7
      [] c = "8" -> 8 [] c = "9" -> 9

\* str.lower() on one character
LowerChar(c) ==
    IF \E i \in 1..26 : UpperLetters[i] = c
    THEN LowerLetters[CHOOSE i \in 1..26 : UpperLetters[i] = c]
    ELSE c

\* str.lower()
Lower(t) == [i \in 1..Len(t) |-> LowerChar(t[i])]

RECURSIVE LStrip(_)
LStrip(t) == IF t # <<>> /\ Head(t) \in Whitespace THEN LStrip(Tail(t)) ELSE t

RECURSIVE RStrip(_)
RStrip(t) ==
    IF t # <<>> /\ t[Len(t)] \in Whitespace THEN RStrip(SubSeq(t, 1, Len(t) - 1)) ELSE t

\* str.strip()
Strip(t) == RStrip(LStrip(t))

\* str.isdigit(): non-empty and every character a digit
IsDigit(t) == t # <<>> /\ \A i \in 1..Len(t) : t[i] \in Digits

\* int() of a digit text
RECURSIVE IntOf(_)
IntOf(t) == IF t = <<>> THEN 0 ELSE 10 * IntOf(SubSeq(t, 1, Len(t) - 1)) + DigitVal(t[Len(t)])

\* length of the longest prefix of digits (the greedy \d+)
RECURSIVE DigitRun(_)
DigitRun(t) == IF t # <<>> /\ Head(t) \in Digits THEN 1 + DigitRun(Tail(t)) ELSE 0

\* One optional group (?:(?P<u>\d+)u)? of _TIME_RE at the head of t:
\* the group's number (0 when the group does not take part) and the rest.
Segment(t, unit) ==
    LET n == DigitRun(t) IN
    IF n > 0 /\ Len(t) > n /\ t[n + 1] = unit
    THEN [val |-> IntOf(SubSeq(t, 1, n)), rest |-> SubSeq(t, n + 2, Len(t))]
    ELSE [val |-> 0, rest |-> t]

\* _TIME_RE.fullmatch(s): the four optional groups in the order d, h, m, s
TimeMatch(t) ==
    LET d == Segment(t, "d")
        h == Segment(d.rest, "h")
        m == Segment(h.rest, "m")
        s == Segment(m.rest, "s")
    IN  [ok |-> s.rest = <<>>, d |-> d.val, h |-> h.val, m |-> m.val, s |-> s.val]

\* (mutant) hours are counted as minutes
parse_durationHoursAsMinutes(text) ==
    LET s == Lower(Strip(text))
        m == TimeMatch(s)
    IN  IF IsDigit(s) THEN [ok |-> TRUE, seconds |-> IntOf(s)]
        ELSE IF ~m.ok THEN [ok |-> FALSE, seconds |-> 0]
        ELSE [ok |-> TRUE,
              seconds |-> m.d * SecPerDay + m.h * SecPerMin + m.m * SecPerMin + m.s]

\* parse_duration: [ok, seconds]; ok = FALSE is the ValueError
parse_duration(text) ==
    LET s == Lower(Strip(text))
        m == TimeMatch(s)
    IN  IF IsDigit(s) THEN [ok |-> TRUE, seconds |-> IntOf(s)]
        ELSE IF ~m.ok THEN [ok |-> FALSE, seconds |-> 0]
        ELSE [ok |-> TRUE,
              seconds |-> m.d * SecPerDay + m.h * SecPerHour + m.m * SecPerMin + m.s]

ALLOW_CASE_INSENSITIVE == TRUE
MATCH_MODE == "equals"

\* normalize_text with ALLOW_CASE_INSENSITIVE set to fold
NormalizeAs(fold, t) == IF fold THEN Lower(t) ELSE t

normalize_text(t) == NormalizeAs(ALLOW_CASE_INSENSITIVE, t)

\* b in a, for texts
Contains(a, b) ==
    \E i \in 0..(Len(a) - Len(b)) : SubSeq(a, i + 1, i + Len(b)) = b

\* (mutant) the phrase is compared as given, not stripped
MatchAsUnstripped(mode, fold, message_content, phrase) ==
    LET a == NormalizeAs(fold, Strip(message_content))
        b == NormalizeAs(fold, phrase)
    IN  IF mode = "contains" THEN Contains(a, b) ELSE a = b

\* match_phrase with MATCH_MODE set to mode and ALLOW_CASE_INSENSITIVE to fold
MatchAs(mode, fold, message_content, phrase) ==
    LET a == NormalizeAs(fold, Strip(message_content))
        b == NormalizeAs(fold, Strip(phrase))
    IN  IF mode = "contains" THEN Contains(a, b) ELSE a = b

match_phrase(message_content, phrase) ==
    MatchAs(MATCH_MODE, ALLOW_CASE_INSENSITIVE, message_content, phrase)


\* ------------------------------------------------------------- universe
SelfBot == 0
Humans == 1..NumUsers
Users == 0..NumUsers
\* member.bot / message.author.bot
IsBot(u) == u = SelfBot

Guilds == {1, 2}
\* message.guild is None (a direct message)
NoGuild == 0
Keys == 1..MaxMsgs

Min(a, b) == IF a < b THEN a ELSE b
Max(a, b) == IF a > b THEN a ELSE b

Cats == <<"c", "a", "t", "s">>
Dog == <<"d", "o", "g">>

\* what the event dispatcher delivers
Texts == {<<" ", "C", "a", "t", "S">>, Dog, <<" ", "\n">>}
Emojis == {"join", "other"}
EMOJI_JOIN == "join"

\* /gstart invocations: the caller's permission, the guild and whether the target
\* channel is a text channel, and the command's arguments
StartRequests ==
    { [perm |-> TRUE, guild |-> 1, textchan |-> TRUE, duration |-> <<"1", "S">>,
       winners |-> 1, must_said |-> Cats],
      [perm |-> TRUE, guild |-> 2, textchan |-> TRUE, duration |-> <<" ", "0">>,
       winners |-> 10, must_said |-> <<"C", "A", "T", "S", " ">>],
      [perm |-> TRUE, guild |-> 1, textchan |-> TRUE, duration |-> <<"1">>,
       winners |-> 2, must_said |-> Cats],
      [perm |-> TRUE, guild |-> 1, textchan |-> TRUE, duration |-> <<"1", "s">>,
       winners |-> 1, must_said |-> <<" ", "\t">>],
      [perm |-> TRUE, guild |-> 1, textchan |-> TRUE, duration |-> <<"s", "1">>,
       winners |-> 1, must_said |-> Cats],
      [perm |-> TRUE, guild |-> 2, textchan |-> TRUE, duration |-> <<"1", "h", "1", "d">>,
       winners |-> 2, must_said |-> <<>>],
      [perm |-> FALSE, guild |-> 1, textchan |-> TRUE, duration |-> <<"1", "s">>,
       winners |-> 1, must_said |-> Cats],
      [perm |-> TRUE, guild |-> 1, textchan |-> FALSE, duration |-> <<"1", "s">>,
       winners |-> 1, must_said |-> Cats] }

\* the reply with which gstart returns before doing anything, or "ok"
StartCheck(req) ==
    IF ~req.perm THEN "NoPermission"
    ELSE IF Strip(req.must_said) = <<>> THEN "InvalidPhrase"
    ELSE IF ~parse_duration(req.duration).ok THEN "InvalidDuration"
    ELSE IF ~req.textchan THEN "NotTextChannel"
    ELSE "ok"

\* the invocations that get past gstart's checks
GoodRequests == {req \in StartRequests : StartCheck(req) = "ok"}

\* the winners argument of /greroll (app_commands.Range[int, 1, 50])
RerollCounts == {1, 2, 10}

\* ------------------------------------------------------------- state
VARIABLES
    now,          \* discord.utils.utcnow().timestamp(), in seconds
    giveaways,    \* bot.giveaways: message id -> Giveaway
    pending,      \* gstart calls suspended after ch.send returned: message id -> locals
    timers,       \* the _countdown_and_end tasks: message id -> [pc, wake]
    sending,      \* _end_giveaway calls suspended in channel.send: {[key, by, winner_ids]}
    outcomes,     \* _end_giveaway calls that got past the guard and finished
    passes,       \* per key, how many _end_giveaway calls got past the guard
    earlyReacts,  \* per key, join reactions delivered while gstart was still suspended
    response,     \* the last reply a command handler sent to its interaction
    calc,         \* a call of parse_duration or match_phrase: [fn, args, done, out]
    lateEvents    \* the kinds of event a handler dropped because the giveaway had ended

vars == <<now, giveaways, pending, timers, sending, outcomes, passes, earlyReacts,
          response, calc, lateEvents>>

Reply(out) == [out |-> out, win |-> <<>>]

\* no helper is being called
NoCall == [fn |-> "none", args |-> <<>>, done |-> FALSE, out |-> <<>>]

\* the bot as GiveawayBot() leaves it, no command or event handled yet
Idle ==
    /\ now = 0
    /\ pending = <<>>
    /\ timers = <<>>
    /\ sending = {}
    /\ outcomes = {}
    /\ passes = [k \in Keys |-> 0]
    /\ earlyReacts = [k \in Keys |-> {}]
    /\ response = Reply("none")
    /\ lateEvents = {}

Init ==
    /\ Idle
    /\ giveaways = <<>>
    /\ calc = NoCall

\* d[k] = v on a dict
Put(d, k, v) == [x \in DOMAIN d \cup {k} |-> IF x = k THEN v ELSE d[x]]
\* a dict without key k
Drop(d, k) == [x \in DOMAIN d \ {k} |-> d[x]]

\* ------------------------------------------------------------- gstart
\* the message id ch.send returns: ids are fresh
FreshIds == Keys \ (DOMAIN giveaways \cup DOMAIN pending)

Giveaway(guild_id, winners, ends_at_unix, must_said) ==
    [guild_id |-> guild_id, winners |-> winners, ends_at_unix |-> ends_at_unix,
     must_said |-> must_said, said_users |-> {}, reacted_users |-> {}, ended |-> FALSE]

\* ends_at and the announcement (lines 203-222): the call is suspended with the id
\* of the message it posted
PostAnnouncementAs(req, id) ==
    LET ends_at == now + parse_duration(req.duration).seconds IN
    /\ ends_at <= MaxTime
    /\ pending' = Put(pending, id, [guild_id |-> req.guild, winners |-> req.winners,
                                   ends_at |-> ends_at, must_said |-> req.must_said])

\* the id is one no message has had
PostAnnouncement(req) ==
    /\ FreshIds # {}
    /\ PostAnnouncementAs(req, CHOOSE k \in FreshIds : \A j \in FreshIds : k <= j)

\* (mutant) the announcement is posted before the arguments are checked
GStartPostsFirst(req) ==
    /\ PostAnnouncement(req)
    /\ response' = IF StartCheck(req) # "ok" THEN Reply(StartCheck(req)) ELSE response
    /\ UNCHANGED <<calc, lateEvents, now, giveaways, timers, sending, outcomes, passes, earlyReacts>>

\* gstart up to the return of ch.send (lines 185-222)
GStart(req) ==
    IF StartCheck(req) # "ok"
    THEN /\ response' = Reply(StartCheck(req))
         /\ UNCHANGED <<calc, lateEvents, now, giveaways, pending, timers, sending, outcomes, passes,
                        earlyReacts>>
    ELSE /\ PostAnnouncement(req)
         /\ UNCHANGED <<calc, lateEvents, now, giveaways, timers, sending, outcomes, passes, earlyReacts,
                        response>>

\* gstart from the return of msg.add_reaction on (lines 223-242)
GStartRegister(id) ==
    /\ id \in DOMAIN pending
    /\ LET l == pending[id] IN
       giveaways' = Put(giveaways, id,
                        Giveaway(l.guild_id, l.winners, l.ends_at, l.must_said))
    /\ timers' = Put(timers, id, [pc |-> "created", wake |-> 0])
    /\ pending' = Drop(pending, id)
    /\ UNCHANGED <<calc, lateEvents, now, sending, outcomes, passes, earlyReacts, response>>

\* ------------------------------------------------------------- events
\* (mutant) the loop stops at the first giveaway the message matches
on_messageFirstMatch(guild, author, content) ==
    /\ guild # NoGuild /\ ~IsBot(author)
    /\ Strip(content) # <<>>
    /\ LET hit == {k \in DOMAIN giveaways :
                     /\ giveaways[k].guild_id = guild /\ ~giveaways[k].ended
                     /\ match_phrase(content, giveaways[k].must_said)}
       IN  giveaways' =
             [k \in DOMAIN giveaways |->
                IF k \in hit /\ \A j \in hit : k <= j
                THEN [giveaways[k] EXCEPT !.said_users = @ \cup {author}]
                ELSE giveaways[k]]
    /\ UNCHANGED <<calc, now, pending, timers, sending, outcomes, passes, earlyReacts, response>>

on_message(guild, author, content) ==
    /\ guild # NoGuild /\ ~IsBot(author)
    /\ Strip(content) # <<>>
    /\ giveaways' =
         [k \in DOMAIN giveaways |->
            LET g == giveaways[k] IN
            IF g.guild_id # guild \/ g.ended THEN g
            ELSE IF match_phrase(content, g.must_said)
                 THEN [g EXCEPT !.said_users = @ \cup {author}]
                 ELSE g]
    /\ UNCHANGED <<calc, now, pending, timers, sending, outcomes, passes, earlyReacts, response>>

\* (mutant) the handler does not read the ended flag
ReactionCountsEnded(message_id, user_id) ==
    /\ message_id \in DOMAIN giveaways
    /\ user_id # SelfBot

\* the reaction reaches line 103
ReactionCounts(message_id, user_id) ==
    /\ message_id \in DOMAIN giveaways
    /\ ~giveaways[message_id].ended
    /\ user_id # SelfBot

on_raw_reaction_add(emoji, message_id, user_id) ==
    /\ emoji = EMOJI_JOIN
    /\ IF ReactionCounts(message_id, user_id)
       THEN giveaways' = [giveaways EXCEPT ![message_id].reacted_users = @ \cup {user_id}]
       ELSE UNCHANGED giveaways
    /\ earlyReacts' =
         IF message_id \in DOMAIN pending /\ user_id # SelfBot
         THEN [earlyReacts EXCEPT ![message_id] = @ \cup {user_id}]
         ELSE earlyReacts
    /\ UNCHANGED <<calc, now, pending, timers, sending, outcomes, passes, response>>

Tick ==
    /\ now < MaxTime
    /\ now' = now + 1
    /\ UNCHANGED <<calc, lateEvents, giveaways, pending, timers, sending, outcomes, passes,
                   earlyReacts, response>>

\* ------------------------------------------------------------- closure
\* (mutant) the guard looks the giveaway up and does not read its ended flag
CanCloseUnflagged(message_id) ==
    message_id \in DOMAIN giveaways

\* the guard of _end_giveaway (lines 108-110): the call goes on
CanClose(message_id) ==
    message_id \in DOMAIN giveaways /\ ~giveaways[message_id].ended

\* (mutant) everyone who reacted is eligible, whether or not they said the phrase
EligibleReacted(g, guild, resolved) ==
    IF guild
    THEN {uid \in g.reacted_users : uid \in resolved /\ ~IsBot(uid)}
    ELSE {}

\* eligible_ids (lines 116-121); resolved = the uids guild.get_member finds
Eligible(g, guild, resolved) ==
    IF guild
    THEN {uid \in g.reacted_users : uid \in resolved /\ ~IsBot(uid) /\ uid \in g.said_users}
    ELSE {}

\* (mutant) the whole pool is drawn
SampleSizePool(winners, pool) == Cardinality(pool)

\* k of random.sample (line 130)
SampleSize(winners, pool) == Min(winners, Cardinality(pool))

\* random.sample(pool, k): the lists of k distinct members of pool
Samples(pool, k) ==
    {w \in [1..k -> pool] : \A i, j \in 1..k : i # j => w[i] # w[j]}

\* winner_ids (lines 123-131)
WinnerLists(g, pool) ==
    IF Cardinality(pool) = 0 THEN {<<>>} ELSE Samples(pool, SampleSize(g.winners, pool))

\* what _end_giveaway returns: None, or a list
None == [none |-> TRUE, winner_ids |-> <<>>]
List(winner_ids) == [none |-> FALSE, winner_ids |-> winner_ids]

\* (mutant) "if not res": an empty list is taken for None
EndReplyFalsy(res) ==
    IF res.none \/ res.winner_ids = <<>> THEN "NotFoundOrEnded" ELSE "Ended"

\* what gend replies to the value _end_giveaway returned (lines 259-262)
EndReply(res) == IF res.none THEN "NotFoundOrEnded" ELSE "Ended"

\* a call that returned winner_ids (ok) or raised out of channel.send, and what its
\* caller then replied
Finished(call, ok) ==
    call @@ [ok |-> ok,
             reply |-> IF call.by = "manual" /\ ok
                       THEN EndReply(List(call.winner_ids)) ELSE "none"]

\* _end_giveaway from its entry to its first await (lines 108-137), for a call that
\* gets past the guard.  guild, chan: whether get_guild and get_channel find them;
\* resolved: the reacted uids get_member finds; winner_ids: what random.sample drew.
\* The call suspends in channel.send or, without a channel, returns winner_ids at once.
EndGiveawayWith(message_id, by, guild, chan, resolved, winner_ids) ==
    LET g == giveaways[message_id]
        call == [key |-> message_id, by |-> by, winner_ids |-> winner_ids]
    IN  /\ CanClose(message_id)
        /\ resolved \subseteq g.reacted_users
        /\ ~guild => (resolved = {} /\ ~chan)
        /\ winner_ids \in WinnerLists(g, Eligible(g, guild, resolved))
        /\ giveaways' = [giveaways EXCEPT ![message_id].ended = TRUE]
        /\ passes' = [passes EXCEPT ![message_id] = @ + 1]
        /\ IF guild /\ chan
           THEN /\ sending' = sending \cup {call}
                /\ UNCHANGED outcomes
           ELSE /\ outcomes' = outcomes \cup {Finished(call, TRUE)}
                /\ UNCHANGED sending

EndGiveaway(message_id, by) ==
    \E guild, chan \in BOOLEAN, resolved \in SUBSET giveaways[message_id].reacted_users :
      \E winner_ids \in WinnerLists(giveaways[message_id],
                                    Eligible(giveaways[message_id], guild, resolved)) :
        EndGiveawayWith(message_id, by, guild, chan, resolved, winner_ids)

\* gend up to the first await of _end_giveaway (lines 247-258, 108-137)
gend(perm, message_id) ==
    /\ perm
    /\ message_id \in Keys
    /\ IF CanClose(message_id)
       THEN \E guild, chan \in BOOLEAN,
               resolved \in SUBSET giveaways[message_id].reacted_users :
              \E winner_ids \in WinnerLists(giveaways[message_id],
                                            Eligible(giveaways[message_id], guild, resolved)) :
                /\ EndGiveawayWith(message_id, "manual", guild, chan, resolved, winner_ids)
                /\ response' = IF guild /\ chan THEN response
                               ELSE Reply(EndReply(List(winner_ids)))
       ELSE /\ response' = Reply(EndReply(None))
            /\ UNCHANGED <<giveaways, passes, sending, outcomes>>
    /\ UNCHANGED <<calc, lateEvents, now, pending, timers, earlyReacts>>

\* (mutant) a send that raises takes the closure back
SendDoneRollback(call, ok) ==
    /\ call \in sending
    /\ sending' = sending \ {call}
    /\ outcomes' = outcomes \cup {Finished(call, ok)}
    /\ response' = IF Finished(call, ok).reply # "none"
                   THEN Reply(Finished(call, ok).reply) ELSE response
    /\ giveaways' = IF ok THEN giveaways
                    ELSE [giveaways EXCEPT ![call.key].ended = FALSE]
    /\ UNCHANGED <<calc, lateEvents, now, pending, timers, passes, earlyReacts>>

\* _end_giveaway from the return of channel.send on (lines 128/137-156): the send
\* raises out of the call, or the call ends the announcement's embed (every failure
\* there is swallowed) and returns winner_ids
SendDone(call, ok) ==
    /\ call \in sending
    /\ sending' = sending \ {call}
    /\ outcomes' = outcomes \cup {Finished(call, ok)}
    /\ response' = IF Finished(call, ok).reply # "none"
                   THEN Reply(Finished(call, ok).reply) ELSE response
    /\ UNCHANGED <<calc, lateEvents, now, giveaways, pending, timers, passes, earlyReacts>>

\* ------------------------------------------------------------- timer
\* (mutant) the task does not sleep
WakeTimeNow(ends_at_unix) == now

\* the time asyncio.sleep(delay) returns (lines 162-164)
WakeTime(ends_at_unix) == now + Max(0, ends_at_unix - now)

\* (mutant) the task returns when the end time has already passed
TimerStartSkipsPast(message_id) ==
    /\ message_id \in DOMAIN timers
    /\ timers[message_id].pc = "created"
    /\ timers' = [timers EXCEPT ![message_id] =
                    IF ~CanClose(message_id) \/ giveaways[message_id].ends_at_unix <= now
                    THEN [pc |-> "done", wake |-> 0]
                    ELSE [pc |-> "sleeping",
                          wake |-> now + Max(0, giveaways[message_id].ends_at_unix - now)]]
    /\ UNCHANGED <<calc, lateEvents, now, giveaways, pending, sending, outcomes, passes, earlyReacts,
                   response>>

\* _countdown_and_end up to asyncio.sleep (lines 159-164)
TimerStart(message_id) ==
    /\ message_id \in DOMAIN timers
    /\ timers[message_id].pc = "created"
    /\ timers' = [timers EXCEPT ![message_id] =
                    IF ~CanClose(message_id) THEN [pc |-> "done", wake |-> 0]
                    ELSE [pc |-> "sleeping",
                          wake |-> WakeTime(giveaways[message_id].ends_at_unix)]]
    /\ UNCHANGED <<calc, lateEvents, now, giveaways, pending, sending, outcomes, passes, earlyReacts,
                   response>>

\* the sleep is over
Awake(message_id) == now >= timers[message_id].wake

\* _countdown_and_end from the return of asyncio.sleep on (line 167, 108-137)
TimerFire(message_id) ==
    /\ message_id \in DOMAIN timers
    /\ timers[message_id].pc = "sleeping"
    /\ Awake(message_id)
    /\ timers' = [timers EXCEPT ![message_id] = [pc |-> "done", wake |-> 0]]
    /\ IF CanClose(message_id)
       THEN EndGiveaway(message_id, "timer")
       ELSE UNCHANGED <<giveaways, passes, sending, outcomes>>
    /\ UNCHANGED <<calc, lateEvents, now, pending, earlyReacts, response>>

\* ------------------------------------------------------------- greroll
\* (mutant) everyone who reacted can be drawn again
RerollEligibleReacted(g, resolved) ==
    {uid \in g.reacted_users : uid \in resolved /\ ~IsBot(uid)}

\* eligible_ids of greroll (lines 290-294)
RerollEligible(g, resolved) ==
    {uid \in g.reacted_users : uid \in resolved /\ ~IsBot(uid) /\ uid \in g.said_users}

\* the replies greroll can give (lines 280-304)
RerollReplies(message_id, winners, guild, resolved) ==
    IF message_id \notin DOMAIN giveaways THEN {Reply("NotFound")}
    ELSE IF ~guild THEN {Reply("NoGuild")}
    ELSE LET eligible_ids == RerollEligible(giveaways[message_id], resolved) IN
         IF eligible_ids = {} THEN {Reply("NoEligible")}
         ELSE {[out |-> "Reroll", win |-> win] :
                 win \in Samples(eligible_ids, Min(winners, Cardinality(eligible_ids)))}

\* (mutant) the users drawn are taken out of the reacted set
grerollConsuming(perm, message_id, winners, guild, resolved) ==
    /\ perm
    /\ message_id \in Keys
    /\ winners \in 1..MaxWinners
    /\ response' \in RerollReplies(message_id, winners, guild, resolved)
    /\ giveaways' =
         IF response'.out = "Reroll"
         THEN [giveaways EXCEPT ![message_id].reacted_users =
                 @ \ {response'.win[i] : i \in DOMAIN response'.win}]
         ELSE giveaways
    /\ UNCHANGED <<calc, lateEvents, now, pending, timers, sending, outcomes, passes, earlyReacts>>

\* (mutant) a reroll opens the giveaway again
grerollReopening(perm, message_id, winners, guild, resolved) ==
    /\ perm
    /\ message_id \in Keys
    /\ winners \in 1..MaxWinners
    /\ response' \in RerollReplies(message_id, winners, guild, resolved)
    /\ giveaways' =
         IF response'.out = "Reroll"
         THEN [giveaways EXCEPT ![message_id].ended = FALSE]
         ELSE giveaways
    /\ UNCHANGED <<calc, lateEvents, now, pending, timers, sending, outcomes, passes, earlyReacts>>

\* (mutant) the users drawn are taken out of the said set
grerollForgetting(perm, message_id, winners, guild, resolved) ==
    /\ perm
    /\ message_id \in Keys
    /\ winners \in 1..MaxWinners
    /\ response' \in RerollReplies(message_id, winners, guild, resolved)
    /\ giveaways' =
         IF response'.out = "Reroll"
         THEN [giveaways EXCEPT ![message_id].said_users =
                 @ \ {response'.win[i] : i \in DOMAIN response'.win}]
         ELSE giveaways
    /\ UNCHANGED <<calc, lateEvents, now, pending, timers, sending, outcomes, passes, earlyReacts>>

\* greroll (lines 270-304); winners is within 1..50 when the handler runs
greroll(perm, message_id, winners, guild, resolved) ==
    /\ perm
    /\ message_id \in Keys
    /\ winners \in 1..MaxWinners
    /\ response' \in RerollReplies(message_id, winners, guild, resolved)
    /\ UNCHANGED <<calc, lateEvents, now, giveaways, pending, timers, sending, outcomes, passes, earlyReacts>>

\* ------------------------------------------------------------- specification
\* the giveaway lifecycle: gstart calls that pass their checks, the events, the
\* clock, the timer task and gend
Next ==
    \/ \E req \in GoodRequests : GStart(req)
    \/ \E id \in Keys : GStartRegister(id)
    \/ \E guild \in Guilds \cup {NoGuild}, author \in Users, content \in Texts :
         on_message(guild, author, content) /\ UNCHANGED lateEvents
    \/ \E emoji \in Emojis, message_id \in Keys, user_id \in Users :
         on_raw_reaction_add(emoji, message_id, user_id) /\ UNCHANGED lateEvents
    \/ Tick
    \/ \E message_id \in Keys : gend(TRUE, message_id)
    \/ \E call \in sending, ok \in BOOLEAN : SendDone(call, ok)
    \/ \E message_id \in Keys : TimerStart(message_id)
    \/ \E message_id \in Keys : TimerFire(message_id)

Spec == Init /\ [][Next]_vars

\* the event loop runs every task that is ready, and time passes
LiveSpec ==
    /\ Spec
    /\ WF_vars(Tick)
    /\ \A message_id \in Keys :
         WF_vars(TimerStart(message_id)) /\ WF_vars(TimerFire(message_id))

\* the commands with every reply they give, without the clock and the timer task
NextCmd ==
    \/ \E req \in StartRequests : GStart(req)
    \/ \E id \in Keys : GStartRegister(id)
    \/ \E guild \in Guilds, author \in Users, content \in Texts :
         on_message(guild, author, content) /\ UNCHANGED lateEvents
    \/ \E message_id \in Keys, user_id \in Users :
         on_raw_reaction_add(EMOJI_JOIN, message_id, user_id) /\ UNCHANGED lateEvents
    \/ \E message_id \in Keys : gend(TRUE, message_id)
    \/ \E call \in sending, ok \in BOOLEAN : SendDone(call, ok)
    \/ \E message_id \in Keys, winners \in RerollCounts, guild \in BOOLEAN :
         \E resolved \in SUBSET (IF message_id \in DOMAIN giveaways
                                  THEN giveaways[message_id].reacted_users ELSE {}) :
           greroll(TRUE, message_id, winners, guild, resolved)

SpecCmd == Init /\ [][NextCmd]_vars

\* ------------------------------------------------------------- every operation
\* the lifecycle of giveaways of one winner and, with it, rerolls of one winner
\* among the members that resolve
NextAll ==
    \/ \E req \in {r \in GoodRequests : r.winners = 1} : GStart(req)
    \/ \E id \in Keys : GStartRegister(id)
    \/ \E guild \in Guilds \cup {NoGuild}, author \in Users, content \in Texts :
         on_message(guild, author, content) /\ UNCHANGED lateEvents
    \/ \E emoji \in Emojis, message_id \in Keys, user_id \in Users :
         on_raw_reaction_add(emoji, message_id, user_id) /\ UNCHANGED lateEvents
    \/ Tick
    \/ \E message_id \in Keys : gend(TRUE, message_id)
    \/ \E call \in sending, ok \in BOOLEAN : SendDone(call, ok)
    \/ \E message_id \in Keys : TimerStart(message_id)
    \/ \E message_id \in Keys : TimerFire(message_id)
    \/ \E message_id \in Keys, guild \in BOOLEAN :
         \E resolved \in {IF message_id \in DOMAIN giveaways
                          THEN giveaways[message_id].reacted_users ELSE {}} :
           greroll(TRUE, message_id, 1, guild, resolved)

SpecAll == Init /\ [][NextAll]_vars

\* ------------------------------------------------------------- an id given twice
\* gstart up to the return of ch.send for a request that passes the checks, the
\* message that ch.send returns having the id of an announcement already registered
GStartAs(req, id) ==
    /\ StartCheck(req) = "ok"
    /\ id \in DOMAIN giveaways \ DOMAIN pending
    /\ PostAnnouncementAs(req, id)
    /\ UNCHANGED <<calc, lateEvents, now, giveaways, timers, sending, outcomes, passes,
                   earlyReacts, response>>

\* requests for one winner
DupRequests == {r \in GoodRequests : r.winners = 1}

\* gstart, the events and gend when message ids can come back; no clock, and
\* MaxCloses closures of one id at most
NextDup ==
    \/ \E req \in DupRequests : GStart(req)
    \/ \E req \in DupRequests, id \in Keys : GStartAs(req, id)
    \/ \E id \in Keys : GStartRegister(id)
    \/ \E guild \in Guilds, author \in Users, content \in Texts :
         on_message(guild, author, content) /\ UNCHANGED lateEvents
    \/ \E message_id \in Keys, user_id \in Users :
         on_raw_reaction_add(EMOJI_JOIN, message_id, user_id) /\ UNCHANGED lateEvents
    \/ \E message_id \in Keys : passes[message_id] < MaxCloses /\ gend(TRUE, message_id)
    \/ \E call \in sending, ok \in BOOLEAN : SendDone(call, ok)

SpecDup == Init /\ [][NextDup]_vars

\* ------------------------------------------------------------- events after the end
\* the giveaways that have ended and that an open giveaway would have taken this
\* message for
MessageLate(guild, author, content) ==
    {k \in DOMAIN giveaways :
       /\ giveaways[k].ended /\ giveaways[k].guild_id = guild
       /\ match_phrase(content, giveaways[k].must_said)
       /\ author \notin giveaways[k].said_users}

\* the lifecycle with the events that come too late noted down, and no clock
NextLate ==
    \/ \E req \in GoodRequests : GStart(req)
    \/ \E id \in Keys : GStartRegister(id)
    \/ \E guild \in Guilds, author \in Users, content \in Texts :
         /\ on_message(guild, author, content)
         /\ lateEvents' = lateEvents \cup
              (IF MessageLate(guild, author, content) # {} THEN {"message"} ELSE {})
    \/ \E message_id \in Keys, user_id \in Users :
         /\ on_raw_reaction_add(EMOJI_JOIN, message_id, user_id)
         /\ lateEvents' = lateEvents \cup
              (IF /\ message_id \in DOMAIN giveaways /\ giveaways[message_id].ended
                  /\ user_id # SelfBot
                  /\ user_id \notin giveaways[message_id].reacted_users
               THEN {"reaction"} ELSE {})
    \/ \E message_id \in Keys : gend(TRUE, message_id)
    \/ \E call \in sending, ok \in BOOLEAN : SendDone(call, ok)

SpecLate == Init /\ [][NextLate]_vars

\* ------------------------------------------------------------- concurrent giveaways
\* the announcement ids of two giveaways that are registered at the same time
Concurrent == {1, 2}

\* the registries gstart and gend can have left with two giveaways in them, before
\* anybody said anything
Registries ==
    {[k \in Concurrent |->
        [Giveaway(guild_id[k], 1, 1, must_said[k]) EXCEPT !.ended = ended[k]]] :
       guild_id \in [Concurrent -> Guilds], must_said \in [Concurrent -> {Cats, Dog}],
       ended \in [Concurrent -> BOOLEAN]}

\* two giveaways are registered, their timer tasks asleep, those ended by gend aside
InitMsg ==
    /\ giveaways \in Registries
    /\ timers = [k \in Concurrent |->
                   IF giveaways[k].ended THEN [pc |-> "done", wake |-> 0]
                   ELSE [pc |-> "sleeping", wake |-> giveaways[k].ends_at_unix]]
    /\ outcomes = {Finished([key |-> k, by |-> "manual", winner_ids |-> <<>>], TRUE) :
                     k \in {j \in Concurrent : giveaways[j].ended}}
    /\ passes = [k \in Keys |-> IF k \in Concurrent /\ giveaways[k].ended THEN 1 ELSE 0]
    /\ response = IF \E k \in Concurrent : giveaways[k].ended
                  THEN Reply("Ended") ELSE Reply("none")
    /\ now = 0
    /\ pending = <<>>
    /\ sending = {}
    /\ earlyReacts = [k \in Keys |-> {}]
    /\ calc = NoCall
    /\ lateEvents = {}

\* the chat messages of the guilds
NextMsg ==
    \E guild \in Guilds \cup {NoGuild}, author \in Users, content \in Texts :
      on_message(guild, author, content) /\ UNCHANGED lateEvents

SpecMsg == InitMsg /\ [][NextMsg]_vars

\* ------------------------------------------------------------- the helpers alone
\* the texts of at most n characters of an alphabet
Words(alphabet, n) == UNION {[1..k -> alphabet] : k \in 0..n}

\* duration arguments
DurationAlphabet == {"0", "1", "d", "h", "m", "s", "D", " ", "x"}
DurationExamples ==
    {<<"1", "d", "2", "h", "3", "m", "4", "s">>,
     <<"4", "5", "m">>,
     <<"2", "h", "1", "d">>,
     <<"1", "h", "3", "0", "m">>,
     <<" ", "1", "0", "S", " ">>,
     <<"9", "3", "7", "8", "4">>,
     <<"1", "h", " ", "3", "0", "m">>}
DurationTexts == Words(DurationAlphabet, MaxLen) \cup DurationExamples

\* message contents and phrases
HelloWorld == <<"H", "e", "l", "l", "o", " ", "W", "o", "r", "l", "d">>
helloworld == <<"h", "e", "l", "l", "o", " ", "w", "o", "r", "l", "d">>
ISaidHello == <<"I", " ", "s", "a", "i", "d", " ", "H", "e", "l", "l", "o">>
hello == <<"h", "e", "l", "l", "o">>
MatchTexts == Words({"h", "H", " "}, MaxLen) \cup {HelloWorld, helloworld, ISaidHello, hello}

\* the calls to make
Calls ==
    {[fn |-> "parse_duration", args |-> <<text>>, done |-> FALSE, out |-> <<>>] :
       text \in DurationTexts}
    \cup
    {[fn |-> "match_phrase", args |-> <<mode, fold, message_content, phrase>>,
      done |-> FALSE, out |-> <<>>] :
       mode \in {"equals", "contains"}, fold \in BOOLEAN,
       message_content \in MatchTexts, phrase \in MatchTexts}

InitPure ==
    /\ Idle
    /\ giveaways = <<>>
    /\ calc \in Calls

\* parse_duration(s) runs
ParseCall ==
    /\ calc.fn = "parse_duration" /\ ~calc.done
    /\ calc' = [calc EXCEPT !.done = TRUE, !.out = parse_duration(calc.args[1])]
    /\ UNCHANGED <<now, giveaways, pending, timers, sending, outcomes, passes,
                   earlyReacts, response, lateEvents>>

\* match_phrase(message_content, phrase) runs
MatchCall ==
    /\ calc.fn = "match_phrase" /\ ~calc.done
    /\ calc' = [calc EXCEPT !.done = TRUE,
                            !.out = MatchAs(calc.args[1], calc.args[2],
                                            calc.args[3], calc.args[4])]
    /\ UNCHANGED <<now, giveaways, pending, timers, sending, outcomes, passes,
                   earlyReacts, response, lateEvents>>

NextPure == ParseCall \/ MatchCall

SpecPure == InitPure /\ [][NextPure]_vars

\* ------------------------------------------------------------- properties
Registered(k) == k \in DOMAIN giveaways
Ended(k) == Registered(k) /\ giveaways[k].ended

\* the calls of _end_giveaway on k that got past the guard: suspended, and finished
Suspended(k) == {c \in sending : c.key = k}
Done(k) == {o \in outcomes : o.key = k}
ClosedBy(k, by) ==
    (\E c \in Suspended(k) : c.by = by) \/ (\E o \in Done(k) : o.by = by)

Callers == {"manual", "timer"}
Range(w) == {w[i] : i \in DOMAIN w}

\* the users in both tracking sets who resolve to non-bot members of the community
MemberPool(g, guild, resolved) ==
    {u \in g.reacted_users \cap g.said_users : guild /\ u \in resolved /\ ~IsBot(u)}

\* the winner lists of the calls that this step starts or finishes
NewLists ==
    {c.winner_ids : c \in sending' \ sending} \cup {o.winner_ids : o \in outcomes' \ outcomes}

\* C1: whatever the interleaving of the timer and of manual end requests, one call
\* of _end_giveaway at most gets past the guard and draws winners, and one does as
\* soon as any call is made on the registered giveaway; that call is suspended in
\* its send or has finished with its winner list; a call on a giveaway that has
\* ended changes nothing and returns None
C1_Once(k) ==
    /\ passes[k] <= 1
    /\ Cardinality(Suspended(k)) + Cardinality(Done(k)) = passes[k]
    /\ Ended(k) <=> passes[k] = 1
    /\ (k \in DOMAIN timers /\ timers[k].pc = "done") => passes[k] = 1
    /\ \A o \in Done(k) : o.by = "manual" /\ o.ok => o.reply = "Ended"

C1_Step(k) ==
    /\ (gend(TRUE, k) \/ TimerFire(k)) /\ Ended(k) =>
         /\ UNCHANGED <<giveaways, passes, sending, outcomes>>
         /\ gend(TRUE, k) => response' = Reply("NotFoundOrEnded")
    /\ (gend(TRUE, k) \/ TimerFire(k)) /\ Registered(k) /\ ~Ended(k) =>
         /\ passes'[k] = 1
         /\ Cardinality(NewLists) = 1

C1_CloseExactlyOnce ==
    [][\A k \in Keys : C1_Once(k)' /\ C1_Step(k)]_vars

\* a second manual attempt and the timer both came while the first call was
\* suspended in its send
C1_Witness ==
    \E k \in Keys :
      /\ \E c \in Suspended(k) : c.by = "manual"
      /\ timers[k].pc = "done"
      /\ response = Reply("NotFoundOrEnded")

\* C2: the winners drawn at closure are all in the pool of the users who are in the
\* reacted set and in the said set and resolve to non-bot members; when one user
\* alone did both and one winner is asked for, that user is the winner list if a
\* member, and nobody wins otherwise
C2_Step(k) ==
    passes'[k] # passes[k] =>
      \A by \in Callers, guild, chan \in BOOLEAN, resolved \in SUBSET Users, w \in NewLists :
        EndGiveawayWith(k, by, guild, chan, resolved, w) =>
          LET g == giveaways[k]
              pool == MemberPool(g, guild, resolved)
          IN  /\ Range(w) \subseteq pool
              /\ Range(w) \cap (g.reacted_users \ g.said_users) = {}
              /\ Range(w) \cap (g.said_users \ g.reacted_users) = {}
              /\ \A u \in Users :
                   g.reacted_users \cap g.said_users = {u} /\ g.winners = 1 =>
                     w = IF u \in pool THEN <<u>> ELSE <<>>

C2_WinnersAreEligible ==
    [][\A k \in Keys : C2_Step(k)]_vars

\* one user reacted and said the phrase, one only reacted, one only said it
C2_Witness ==
    \E k \in DOMAIN giveaways :
      LET g == giveaways[k] IN
      /\ g.ended /\ g.winners = 1
      /\ \E u \in Humans :
           /\ g.reacted_users \cap g.said_users = {u}
           /\ g.reacted_users \ g.said_users # {}
           /\ g.said_users \ g.reacted_users # {}
           /\ \E o \in Done(k) : o.ok /\ o.winner_ids = <<u>>

\* C3: the call that closes draws min(requested winners, pool size) winners, no
\* user twice
C3_Step(k) ==
    passes'[k] # passes[k] =>
      \A by \in Callers, guild, chan \in BOOLEAN, resolved \in SUBSET Users, w \in NewLists :
        EndGiveawayWith(k, by, guild, chan, resolved, w) =>
          LET g == giveaways[k]
              pool == MemberPool(g, guild, resolved)
          IN  /\ Len(w) = Min(g.winners, Cardinality(pool))
              /\ Len(w) <= g.winners
              /\ Len(w) <= Cardinality(pool)
              /\ Cardinality(Range(w)) = Len(w)

C3_WinnerCount ==
    [][\A k \in Keys : C3_Step(k)]_vars

\* ten winners asked for, three users in both sets: three winners returned
C3_Witness ==
    \E k \in DOMAIN giveaways :
      /\ giveaways[k].winners = 10
      /\ Cardinality(giveaways[k].reacted_users \cap giveaways[k].said_users) = 3
      /\ \E o \in Done(k) : o.ok /\ Len(o.winner_ids) = 3

\* fewer winners asked for than the pool holds
C3_WitnessFewer ==
    \E k \in DOMAIN giveaways :
      /\ giveaways[k].winners = 2
      /\ Cardinality(giveaways[k].reacted_users \cap giveaways[k].said_users) = 3
      /\ \E o \in Done(k) : o.ok /\ Len(o.winner_ids) = 2

\* C4: with the event loop running its tasks and time passing, every registered
\* giveaway gets ended, manual end or not; and a timer task asleep on a giveaway
\* whose end time has come is ready to run, with no further wait
C4_EventuallyEnded ==
    /\ \A k \in Keys : Registered(k) ~> Ended(k)
    /\ [](\A k \in Keys :
            (Registered(k) /\ timers[k].pc = "sleeping"
               /\ giveaways[k].ends_at_unix <= now) => ENABLED TimerFire(k))

\* the timer, and no manual end, closed a giveaway whose end time had passed
C4_Witness ==
    \E k \in DOMAIN giveaways :
      /\ giveaways[k].ended /\ giveaways[k].ends_at_unix < now
      /\ ClosedBy(k, "timer") /\ ~ClosedBy(k, "manual")

\* C5: a giveaway ended while the time is before its end timestamp was closed by a
\* manual end; one closed by the timer is ended only at or after its end timestamp,
\* which stays what it was at creation
C5_NoEarlyTimer ==
    \A k \in Keys :
      Ended(k) =>
        /\ ClosedBy(k, "timer") => now >= giveaways[k].ends_at_unix
        /\ now < giveaways[k].ends_at_unix => ClosedBy(k, "manual")
        /\ ClosedBy(k, "timer") \/ ClosedBy(k, "manual")

\* the timer closed the giveaway at its end timestamp
C5_Witness ==
    \E k \in DOMAIN giveaways :
      /\ giveaways[k].ended /\ giveaways[k].ends_at_unix = 1 /\ now = 1
      /\ ClosedBy(k, "timer")

\* an early manual end
C5_WitnessManual ==
    \E k \in DOMAIN giveaways :
      giveaways[k].ended /\ now < giveaways[k].ends_at_unix /\ ClosedBy(k, "manual")

\* C6 (as claimed): a member whose join reaction on the announcement was delivered
\* once the announcement was posted, also while gstart had not yet registered the
\* giveaway, and who said the phrase, is among the users the closure draws from:
\* the pool is drawn from the reacted set, so the member is in it when the
\* giveaway has ended
C6_EarlyReactionCounts ==
    \A k \in Keys :
      Ended(k) =>
        (earlyReacts[k] \cap Humans \cap giveaways[k].said_users)
          \subseteq giveaways[k].reacted_users

\* C9: a call that closes a giveaway whose pool is empty (nobody in both sets, or
\* no guild) marks it ended and has the empty list as its winner list, and when it
\* returns gend replies that the giveaway was ended, as for any list, and not that
\* it was not found or had ended
C9_Step(k) ==
    /\ passes'[k] # passes[k] =>
         \A by \in Callers, guild, chan \in BOOLEAN, resolved \in SUBSET Users, w \in NewLists :
           EndGiveawayWith(k, by, guild, chan, resolved, w)
             /\ MemberPool(giveaways[k], guild, resolved) = {} =>
               /\ w = <<>>
               /\ giveaways'[k].ended
               /\ ~(guild /\ chan) =>
                    /\ \E o \in Done(k)' : o.ok /\ o.by = by /\ o.winner_ids = <<>>
                    /\ by = "manual" => response' = Reply("Ended")
    /\ \A o \in outcomes' \ outcomes :
         o.key = k /\ o.ok /\ o.by = "manual" =>
           /\ o.reply = "Ended"
           /\ response' = Reply("Ended")
           /\ o.winner_ids \in {c.winner_ids : c \in Suspended(k)} \cup NewLists

C9_EmptyPoolReturnsEmptyList ==
    [][\A k \in Keys : C9_Step(k)]_vars

\* a manual end of a giveaway with users in one set only returned the empty list
C9_Witness ==
    \E k \in DOMAIN giveaways :
      /\ giveaways[k].reacted_users # {} /\ giveaways[k].said_users # {}
      /\ giveaways[k].reacted_users \cap giveaways[k].said_users = {}
      /\ giveaways[k].ended
      /\ \E o \in Done(k) : o.ok /\ o.by = "manual" /\ o.winner_ids = <<>>
                            /\ o.reply = "Ended"

\* the guild does not resolve: the list is empty though users are in both sets
C9_WitnessNoGuild ==
    \E k \in DOMAIN giveaways :
      /\ giveaways[k].reacted_users \cap giveaways[k].said_users # {}
      /\ giveaways[k].ended /\ Suspended(k) = {}
      /\ \E o \in Done(k) : o.ok /\ o.winner_ids = <<>>

\* the replies of greroll
RerollOuts == {"NotFound", "NoGuild", "NoEligible", "Reroll"}
Rerolled == response' # response /\ response'.out \in RerollOuts

\* C7: a reroll leaves the registry as it was (the tracking sets, the ended flag
\* and the parameters of every giveaway) and the timer and the closing calls with
\* it; a giveaway that could be closed before the reroll can be closed after it
C7_RerollChangesNothing ==
    [][Rerolled =>
         /\ giveaways' = giveaways
         /\ UNCHANGED <<pending, timers, sending, outcomes, passes>>
         /\ \A k \in Keys : CanClose(k) => CanClose(k)']_vars

\* a reroll drew winners from a giveaway that is still open
C7_Witness ==
    /\ response.out = "Reroll"
    /\ \E k \in DOMAIN giveaways :
         ~giveaways[k].ended /\ Range(response.win) \subseteq giveaways[k].reacted_users
                             /\ response.win # <<>>

\* what a reroll of n winners on key k may reply, the guild resolving: NotFound
\* for a key not in the registry, NoEligible for an empty pool, and min(n, pool
\* size) distinct members of the pool otherwise
RerollAsClaimed(k, n, pool, r) ==
    /\ ~Registered(k) => r = Reply("NotFound")
    /\ Registered(k) => r.out # "NotFound"
    /\ Registered(k) /\ pool = {} => r = Reply("NoEligible")
    /\ Registered(k) /\ pool # {} =>
         /\ r.out = "Reroll"
         /\ Len(r.win) = Min(n, Cardinality(pool))
         /\ Range(r.win) \subseteq pool
         /\ Cardinality(Range(r.win)) = Len(r.win)

\* the pool of a reroll on key k: reacted and said, filtered to the non-bot
\* members that resolve
RerollPool(k, guild, resolved) ==
    IF Registered(k) THEN MemberPool(giveaways[k], guild, resolved) ELSE {}

\* C8 (as claimed): every reply greroll can give is NotFound, NoEligible or a
\* winner list, a pool nobody resolves into being empty
C8_RerollThreeOutcomes ==
    \A k \in Keys, n \in RerollCounts, guild \in BOOLEAN, resolved \in SUBSET Users :
      \A r \in RerollReplies(k, n, guild, resolved) :
        RerollAsClaimed(k, n, RerollPool(k, guild, resolved), r)

\* C8 (amended): a reroll on a registered giveaway whose guild does not resolve
\* replies that the guild was not found; with the guild resolved the reply is as
\* claimed; no giveaway ever leaves the registry, so a closed one is never NotFound
C8_RerollOutcomes ==
    /\ [](\A k \in Keys, n \in RerollCounts, guild \in BOOLEAN, resolved \in SUBSET Users :
            \A r \in RerollReplies(k, n, guild, resolved) :
              IF Registered(k) /\ ~guild
              THEN r = Reply("NoGuild")
              ELSE RerollAsClaimed(k, n, RerollPool(k, TRUE, resolved), r))
    /\ [][\A k \in Keys : (Registered(k) => Registered(k)') /\ (Ended(k) => Ended(k)')]_vars

\* a reroll on a closed giveaway drew one of the winners of the closure again
C8_Witness ==
    /\ response.out = "Reroll"
    /\ \E k \in DOMAIN giveaways :
         /\ giveaways[k].ended
         /\ \E o \in Done(k) : o.ok /\ Range(o.winner_ids) \cap Range(response.win) # {}
         /\ Len(response.win) = 2
         /\ Cardinality(giveaways[k].reacted_users \cap giveaways[k].said_users) = 3

\* C10: a gstart with a blank phrase replies InvalidPhrase and one with a phrase
\* and a duration that does not parse replies InvalidDuration; a step that gives
\* either reply registers no giveaway, posts nothing and arms no timer
Blank(text) == \A i \in DOMAIN text : text[i] \in Whitespace

\* the replies with which gstart returns early
StartOuts == {"NoPermission", "InvalidPhrase", "InvalidDuration", "NotTextChannel"}

C10_RejectedStartChangesNothing ==
    [][response' # response /\ response'.out \in StartOuts =>
         /\ \A req \in StartRequests :
              req.perm /\ GStart(req) =>
                /\ Blank(req.must_said) <=> response' = Reply("InvalidPhrase")
                /\ ~Blank(req.must_said) /\ ~parse_duration(req.duration).ok
                     <=> response' = Reply("InvalidDuration")
         /\ response'.out \in {"InvalidPhrase", "InvalidDuration"} =>
              /\ giveaways' = giveaways
              /\ UNCHANGED <<pending, timers, sending, outcomes, passes>>]_vars

\* a start was rejected for its duration while a giveaway with entrants is registered
C10_Witness ==
    /\ response = Reply("InvalidDuration")
    /\ \E k \in DOMAIN giveaways : giveaways[k].said_users # {} /\ timers[k].pc = "created"

\* a start was rejected for its phrase
C10_WitnessPhrase ==
    /\ response = Reply("InvalidPhrase")
    /\ DOMAIN pending # {}

\* the calls on k that raised out of channel.send
Failed(k) == {o \in Done(k) : ~o.ok}

\* C11: the step in which a suspended call finishes, its send having raised or
\* not (a failure to edit the announcement is swallowed and the call returns),
\* changes no giveaway; a giveaway whose closing call raised stays ended, and a
\* later gend or timer firing on it draws nothing and changes nothing, gend
\* replying that the giveaway was not found or had ended
C11_Step(k) ==
    /\ \A o \in outcomes' \ outcomes :
         o.key = k /\ (\E c \in Suspended(k) : c.winner_ids = o.winner_ids /\ c.by = o.by) =>
           /\ giveaways' = giveaways
           /\ Ended(k)'
    /\ Failed(k)' # {} => Ended(k)' /\ passes'[k] = 1
    /\ Failed(k) # {} /\ (gend(TRUE, k) \/ TimerFire(k)) =>
         /\ UNCHANGED <<giveaways, passes, sending, outcomes>>
         /\ gend(TRUE, k) => response' = Reply("NotFoundOrEnded")

C11_FailedSendKeepsClosure ==
    [][\A k \in Keys : C11_Step(k)]_vars

\* the timer's call raised out of its send, users being in both sets, and a manual
\* end that came later was answered as a no-op
C11_Witness ==
    \E k \in DOMAIN giveaways :
      /\ \E o \in Failed(k) : o.by = "timer" /\ o.winner_ids # <<>>
      /\ giveaways[k].ended
      /\ giveaways[k].reacted_users \cap giveaways[k].said_users # {}
      /\ Suspended(k) = {}
      /\ response = Reply("NotFoundOrEnded")

\* ------------------------------------------------------------- the helpers' contracts
\* the call of parse_duration has returned or raised
Parsed == calc.fn = "parse_duration" /\ calc.done

\* a text without the whitespace around it
NonBlank(t) == {i \in 1..Len(t) : t[i] \notin Whitespace}
Trim(t) ==
    IF NonBlank(t) = {} THEN <<>>
    ELSE SubSeq(t, CHOOSE i \in NonBlank(t) : \A j \in NonBlank(t) : i <= j,
                   CHOOSE i \in NonBlank(t) : \A j \in NonBlank(t) : i >= j)

\* a plain non-negative integer
DigitsOnly(t) == Len(t) > 0 /\ Range(t) \subseteq Digits

\* the decimal value of a text of digits
Decimal(t) ==
    LET pow[n \in 0..Len(t)] == IF n = 0 THEN 1 ELSE 10 * pow[n - 1]
        sum[n \in 0..Len(t)] ==
            IF n = 0 THEN 0 ELSE sum[n - 1] + DigitVal(t[n]) * pow[Len(t) - n]
    IN  sum[Len(t)]

\* t is absent or is an integer immediately followed by the unit letter u
UnitPart(t, u) ==
    t = <<>> \/ (Len(t) >= 2 /\ t[Len(t)] = u /\ DigitsOnly(SubSeq(t, 1, Len(t) - 1)))
UnitValue(t) == IF t = <<>> THEN 0 ELSE Decimal(SubSeq(t, 1, Len(t) - 1))

\* the ways to read t as a day part, an hour part, a minute part and a second part
Splits(t) ==
    {c \in (0..Len(t)) \X (0..Len(t)) \X (0..Len(t)) :
       /\ c[1] <= c[2] /\ c[2] <= c[3]
       /\ UnitPart(SubSeq(t, 1, c[1]), "d")
       /\ UnitPart(SubSeq(t, c[1] + 1, c[2]), "h")
       /\ UnitPart(SubSeq(t, c[2] + 1, c[3]), "m")
       /\ UnitPart(SubSeq(t, c[3] + 1, Len(t)), "s")}
SplitSeconds(t, c) ==
    UnitValue(SubSeq(t, 1, c[1])) * 86400 + UnitValue(SubSeq(t, c[1] + 1, c[2])) * 3600
      + UnitValue(SubSeq(t, c[2] + 1, c[3])) * 60 + UnitValue(SubSeq(t, c[3] + 1, Len(t)))

\* a composite expression: segments in the order d, h, m, s, one at least
IsComposite(t) == t # <<>> /\ Splits(t) # {}

\* a duration text of one of the two accepted forms, case and outer whitespace aside
ValidDuration(text) ==
    LET t == Lower(Trim(text)) IN DigitsOnly(t) \/ IsComposite(t)

\* C12 (as claimed): parse_duration raises for every text that is neither a plain
\* non-negative integer nor a composite of d/h/m/s segments in that order, the
\* empty text and the texts of whitespace among them
C12_InvalidDurationFails ==
    Parsed /\ ~ValidDuration(calc.args[1]) => ~calc.out.ok

\* what holds of parse_duration: a text that is of neither form and is not blank
\* makes it raise, and a blank text makes it return 0
C12_BlankDurationIsZero ==
    Parsed /\ ~ValidDuration(calc.args[1]) =>
      IF Trim(calc.args[1]) = <<>>
      THEN calc.out = [ok |-> TRUE, seconds |-> 0]
      ELSE ~calc.out.ok

\* C13: parse_duration of a text of digits is its decimal value, and of a composite
\* of d/h/m/s segments in that order is days*86400 + hours*3600 + minutes*60 +
\* seconds, whatever the case of the unit letters and the whitespace around the
\* text; "1d2h3m4s" gives 93784 and "45m" gives 2700
C13_DurationValue ==
    Parsed =>
      LET t == Lower(Trim(calc.args[1])) IN
      /\ DigitsOnly(t) => calc.out = [ok |-> TRUE, seconds |-> Decimal(t)]
      /\ IsComposite(t) =>
           \A c \in Splits(t) : calc.out = [ok |-> TRUE, seconds |-> SplitSeconds(t, c)]
      /\ calc.args[1] = <<"1", "d", "2", "h", "3", "m", "4", "s">> =>
           calc.out = [ok |-> TRUE, seconds |-> 93784]
      /\ calc.args[1] = <<"4", "5", "m">> => calc.out = [ok |-> TRUE, seconds |-> 2700]

\* the four segments together
C13_Witness ==
    /\ Parsed
    /\ calc.args[1] = <<"1", "d", "2", "h", "3", "m", "4", "s">>
    /\ calc.out.ok /\ calc.out.seconds = 93784

\* an uppercase unit letter and whitespace around the text
C13_WitnessCase ==
    /\ Parsed
    /\ calc.args[1] = <<" ", "1", "0", "S", " ">>
    /\ calc.out.ok /\ calc.out.seconds = 10

\* digits with whitespace around them
C13_WitnessDigits ==
    /\ Parsed
    /\ calc.args[1] = <<" ", "1", "0">>
    /\ calc.out.ok /\ calc.out.seconds = 10

\* the call of match_phrase has returned
Matched == calc.fn = "match_phrase" /\ calc.done

\* b occurs in a
Occurs(b, a) == \E i, j \in 0..Len(a) : i <= j /\ SubSeq(a, i + 1, j) = b

\* C14: match_phrase trims both texts and, case-insensitivity being on, lowercases
\* them; in equals mode it is true exactly when the two are then identical, in
\* contains mode exactly when the phrase then occurs in the message: with the
\* default folding "Hello World" matches "hello world" in equals mode, and
\* "I said Hello" against "hello" is false in equals mode and true in contains mode
C14_MatchContract ==
    Matched =>
      LET mode == calc.args[1]
          fold == calc.args[2]
          a == IF fold THEN Lower(Trim(calc.args[3])) ELSE Trim(calc.args[3])
          b == IF fold THEN Lower(Trim(calc.args[4])) ELSE Trim(calc.args[4])
      IN  /\ mode = "equals" => (calc.out <=> a = b)
          /\ mode = "contains" => (calc.out <=> Occurs(b, a))
          /\ fold /\ calc.args[3] = HelloWorld /\ calc.args[4] = helloworld
               /\ mode = "equals" => calc.out
          /\ fold /\ calc.args[3] = ISaidHello /\ calc.args[4] = hello =>
               (calc.out <=> mode = "contains")

\* "I said Hello" holds "hello" in contains mode
C14_Witness ==
    /\ Matched /\ calc.out
    /\ calc.args = <<"contains", TRUE, ISaidHello, hello>>

\* and is not equal to it
C14_WitnessEquals ==
    /\ Matched /\ ~calc.out
    /\ calc.args = <<"equals", TRUE, ISaidHello, hello>>

\* texts that differ in case and in the whitespace around them are equal
C14_WitnessTrim ==
    /\ Matched /\ calc.out
    /\ calc.args = <<"equals", TRUE, <<" ", "H", "h">>, <<"h", "H", " ">>>>

\* C15: a step taken while a giveaway is ended, the delivery of a chat message or
\* of a reaction included, and also while the call that ended it is suspended in
\* its send, leaves its said set and its reacted set as they were; a reaction
\* on a message id that is not in the registry changes no giveaway
C15_Step(k) ==
    /\ Ended(k) =>
         /\ Ended(k)'
         /\ giveaways'[k].said_users = giveaways[k].said_users
         /\ giveaways'[k].reacted_users = giveaways[k].reacted_users
    /\ ~Registered(k) =>
         \A emoji \in Emojis, user_id \in Users :
           on_raw_reaction_add(emoji, k, user_id) => giveaways' = giveaways

C15_EndedSetsFrozen ==
    [][\A k \in Keys : C15_Step(k)]_vars

\* while the closing call was suspended in its send, a message with the phrase and
\* a join reaction came from users who were in neither set, and the sets are empty
C15_Witness ==
    \E k \in DOMAIN giveaways :
      /\ giveaways[k].ended /\ Suspended(k) # {}
      /\ lateEvents = {"message", "reaction"}
      /\ giveaways[k].said_users = {} /\ giveaways[k].reacted_users = {}

\* a reaction came for an announcement that is not registered yet
C15_WitnessUnknown ==
    \E k \in Keys : ~Registered(k) /\ earlyReacts[k] # {} /\ giveaways = <<>>

\* C16 (as claimed): once a manual end has closed a giveaway its timer task is no
\* longer asleep: closure cancels or releases it
C16_ManualEndReleasesTimer ==
    \A k \in Keys :
      Ended(k) /\ ClosedBy(k, "manual") => timers[k].pc # "sleeping"

\* what the task does instead: it sleeps on after the manual end until its wake
\* time, and its call of _end_giveaway then changes nothing
C16_TimerSleepsOn ==
    [][\A k \in Keys :
         Ended(k) /\ ClosedBy(k, "manual") /\ timers[k].pc = "sleeping"
           /\ timers'[k].pc # "sleeping" =>
             /\ now >= timers[k].wake
             /\ TimerFire(k)
             /\ UNCHANGED <<giveaways, passes, sending, outcomes>>]_vars

\* the message text is the phrase, case and outer whitespace aside
SaysPhrase(content, phrase) == Lower(Trim(content)) = Lower(Trim(phrase))

\* C17: a message that is not blank, from an author who is not a bot, in a guild,
\* adds the author to the said set of every giveaway of that guild that is open
\* and whose phrase it matches, of several at once, and leaves every other said set
\* as it was; nothing else changes a said set: not a message of a bot, a blank
\* message or a message outside a guild
C17_Step ==
    /\ \A guild \in Guilds \cup {NoGuild}, author \in Users, content \in Texts :
         on_message(guild, author, content) =>
           /\ DOMAIN giveaways' = DOMAIN giveaways
           /\ \A k \in DOMAIN giveaways :
                giveaways'[k] =
                  IF /\ giveaways[k].guild_id = guild /\ ~giveaways[k].ended
                     /\ SaysPhrase(content, giveaways[k].must_said)
                  THEN [giveaways[k] EXCEPT !.said_users = @ \cup {author}]
                  ELSE giveaways[k]
    /\ \A k \in DOMAIN giveaways :
         LET new == giveaways'[k].said_users \ giveaways[k].said_users IN
         new # {} =>
           /\ ~giveaways[k].ended
           /\ \E author \in Humans : new = {author}
           /\ \E content \in Texts :
                NonBlank(content) # {} /\ SaysPhrase(content, giveaways[k].must_said)

C17_MessageReachesEveryOpenGiveaway ==
    [][C17_Step]_vars

\* one message put its author in the said sets of two giveaways of one guild, and
\* in no said set of the other guild
C17_Witness ==
    /\ Concurrent \subseteq DOMAIN giveaways
    /\ giveaways[1].guild_id = giveaways[2].guild_id
    /\ giveaways[1].must_said = giveaways[2].must_said
    /\ ~giveaways[1].ended /\ ~giveaways[2].ended
    /\ \E u \in Humans : giveaways[1].said_users = {u} /\ giveaways[2].said_users = {u}

\* the same phrase in another guild, and in an ended giveaway: neither said set moved
C17_WitnessOthers ==
    /\ Concurrent \subseteq DOMAIN giveaways
    /\ giveaways[1].must_said = giveaways[2].must_said
    /\ giveaways[1].said_users = Humans
    /\ giveaways[2].said_users = {}
    /\ giveaways[1].guild_id # giveaways[2].guild_id \/ giveaways[2].ended

\* C18: no step of any operation takes the ended flag of a giveaway from true to
\* false or takes the giveaway out of the registry; a giveaway enters the registry
\* open; the flag goes up only in a step of gend or of the timer task in which a
\* call of _end_giveaway gets past the guard, and that happens once at most
C18_Step(k) ==
    /\ Ended(k) => Ended(k)'
    /\ Registered(k) => Registered(k)'
    /\ ~Registered(k) /\ Registered(k)' => ~Ended(k)'
    /\ passes'[k] <= 1
    /\ ~Ended(k) /\ Ended(k)' =>
         /\ Registered(k)
         /\ gend(TRUE, k) \/ TimerFire(k)
         /\ passes[k] = 0 /\ passes'[k] = 1
         /\ Cardinality(NewLists) = 1

C18_EndedIsFinal ==
    [][\A k \in Keys : C18_Step(k)]_vars

\* after a manual end the timer fired, events came and a reroll drew a winner: the
\* giveaway is still ended
C18_Witness ==
    \E k \in DOMAIN giveaways :
      /\ giveaways[k].ended /\ passes[k] = 1
      /\ ClosedBy(k, "manual") /\ timers[k].pc = "done"
      /\ response.out = "Reroll" /\ response.win # <<>>
      /\ now = MaxTime

\* C19: across the steps of every operation a giveaway stays in the registry and
\* its said set and its reacted set keep every user they hold
C19_Step(k) ==
    Registered(k) =>
      /\ Registered(k)'
      /\ giveaways[k].said_users \subseteq giveaways'[k].said_users
      /\ giveaways[k].reacted_users \subseteq giveaways'[k].reacted_users

C19_SetsOnlyGrow ==
    [][\A k \in Keys : C19_Step(k)]_vars

\* every member reacted and said the phrase, the giveaway was closed with a winner
\* and a reroll drew a winner: both sets are whole
C19_Witness ==
    \E k \in DOMAIN giveaways :
      /\ giveaways[k].ended
      /\ giveaways[k].said_users = Humans /\ giveaways[k].reacted_users = Humans
      /\ \E o \in Done(k) : o.ok /\ o.winner_ids # <<>>
      /\ response.out = "Reroll" /\ response.win # <<>>

\* C20 (as claimed): when gstart comes to register a giveaway under a message id
\* that is in the registry already, the giveaway registered under that id stays as
\* it is (its sets, its ended flag, its parameters) and gstart reports DuplicateKey
C20_DuplicateKeyRejected ==
    [][\A id \in Keys :
         Registered(id) /\ GStartRegister(id) =>
           /\ giveaways'[id] = giveaways[id]
           /\ response' = Reply("DuplicateKey")]_vars

\* what gstart does: the new giveaway takes the place of the one registered, with
\* empty sets and open
C20_DuplicateOverwrites ==
    [][\A id \in Keys :
         Registered(id) /\ GStartRegister(id) =>
           /\ giveaways'[id].said_users = {} /\ giveaways'[id].reacted_users = {}
           /\ ~giveaways'[id].ended
           /\ response' = response]_vars

\* the same, for a giveaway that had entrants or had ended
C20_DuplicateKeepsEntrants ==
    [][\A id \in Keys :
         Registered(id) /\ GStartRegister(id) =>
           /\ giveaways'[id].said_users = giveaways[id].said_users
           /\ giveaways'[id].reacted_users = giveaways[id].reacted_users
           /\ giveaways'[id].ended = giveaways[id].ended]_vars

====
